---------------------------- MODULE Spec2Model ----------------------------
(***************************************************************************)
(* Model of the KYC demo: src/verificare_documente.py (field extraction,   *)
(* CNP checksum, rule validator), src/KYC.py (the runner) and src/log.py   *)
(* (the JSONL logger).                                                     *)
(*                                                                         *)
(* Conventions.  A Python str is a sequence of one-character strings.  A   *)
(* text is held as its lines, a line as its whitespace-separated tokens,   *)
(* a token as its characters; the regular expressions of the source are    *)
(* applied at token granularity.  A Python value is a record tagged by t;  *)
(* a dict is a function whose DOMAIN is the set of keys present.  A call   *)
(* that can raise yields an outcome record with a field raised.            *)
(***************************************************************************)
EXTENDS Integers, Sequences, FiniteSets, TLC

VARIABLES
    pc,                     \* position of the run / of the call under study
    cnp, cnp_ret,           \* argument and outcome of valid_cnp
    id_text, inv_text,      \* raw identity text, raw invoice text
    id_fields, inv_fields,  \* outcomes of parse_id_text / parse_invoice_text_native
    lv, today, lap_threshold, invoice_max_age_days,  \* validate_kyc's other inputs
    verdict,                \* outcome of validate_kyc
    env,                    \* what the runner finds on disk and in the OCR engine
    log, exit_code          \* the log file's entries and the runner's exit code

vars == <<pc, cnp, cnp_ret, id_text, inv_text, id_fields, inv_fields, lv, today,
          lap_threshold, invoice_max_age_days, verdict, env, log, exit_code>>

----------------------------------------------------------------------------
(* Python values *)

None == [t |-> "none"]
Str(s) == [t |-> "str", s |-> s]
IntV(n) == [t |-> "int", n |-> n]
EmptyDict == <<>>

\* bool(v) for the values the code tests for truth
Truthy(v) ==
    CASE v.t = "none" -> FALSE
      [] v.t = "str" -> v.s # <<>>
      [] v.t = "int" -> v.n # 0
      [] OTHER -> TRUE

\* d.get(k): the value, or None when the key is absent
Get(d, k) == IF k \in DOMAIN d THEN d[k] ELSE None

\* a call's outcome: returned a value, or raised
Returned(v) == [raised |-> FALSE, value |-> v]
Raised(e) == [raised |-> TRUE, value |-> Str(<<e>>)]
NotCalled == [raised |-> FALSE, value |-> [t |-> "pending"]]

DigitChars == <<"0", "1", "2", "3", "4", "5", "6", "7", "8", "9">>
IsDigit(c) == \E n \in 1..10 : DigitChars[n] = c
\* int(c) for one digit character
DigitInt(c) == (CHOOSE n \in 1..10 : DigitChars[n] = c) - 1

----------------------------------------------------------------------------
(* valid_cnp *)

_CNP_CONST == <<2, 7, 9, 1, 4, 6, 3, 5, 8, 2, 7, 9>>

\* re.fullmatch(r"\d{13}", s)
FullMatchD13(s) == Len(s) = 13 /\ \A i \in 1..13 : IsDigit(s[i])

\* cnp[i] and int(...) raise on an index past the end or a non-digit
CanIndexDigit(s, i) == i + 1 <= Len(s) /\ IsDigit(s[i + 1])

RECURSIVE WeightedSum(_, _)
\* sum(int(cnp[i]) * _CNP_CONST[i] for i in range(n))
WeightedSum(s, n) ==
    IF n = 0 THEN 0
    ELSE WeightedSum(s, n - 1) + DigitInt(s[n]) * _CNP_CONST[n]

valid_cnp_NoTenRule(c) ==
    IF ~Truthy(c) \/ ~FullMatchD13(c.s)
    THEN Returned(FALSE)
    ELSE LET s == WeightedSum(c.s, 12) % 11
         IN  Returned(s = DigitInt(c.s[13]))

valid_cnp(c) ==
    IF ~Truthy(c) \/ ~FullMatchD13(c.s)
    THEN Returned(FALSE)
    ELSE IF \E i \in 0..12 : ~CanIndexDigit(c.s, i)
    THEN Raised("ValueError")
    ELSE LET s == WeightedSum(c.s, 12) % 11
             ctrl == IF s = 10 THEN 1 ELSE s
         IN  Returned(ctrl = DigitInt(c.s[13]))


----------------------------------------------------------------------------
(* Dates, date strings and floats as validate_kyc uses them *)

DictV(d) == [t |-> "dict", d |-> d]
\* a datetime.date, as its day number
DateV(day) == [t |-> "date", day |-> day]
\* str(d.date()): the ISO text "YYYY-MM-DD" of day number day
IsoStr(day) == [t |-> "iso", day |-> day]
\* a non-empty text that is no date
JunkStr == Str(<<"x">>)

\* dateparser.parse(v): a date for an ISO text, None for text that is no date
DateParse(v) == IF v.t = "iso" THEN DateV(v.day) ELSE None

\* str(v) for the values a total can hold
PyStr(v) ==
    CASE v.t = "str" -> v.s
      [] v.t = "int" /\ v.n = 0 -> <<"0">>
      [] v.t = "none" -> <<"N", "o", "n", "e">>

RECURSIVE ReplaceChar(_, _, _)
\* s.replace(a, b) for one-character a and b
ReplaceChar(s, a, b) ==
    IF s = <<>> THEN <<>>
    ELSE <<IF Head(s) = a THEN b ELSE Head(s)>> \o ReplaceChar(Tail(s), a, b)

RECURSIVE LStrip(_)
LStrip(s) == IF s # <<>> /\ Head(s) = " " THEN LStrip(Tail(s)) ELSE s
RECURSIVE RStrip(_)
RStrip(s) ==
    IF s # <<>> /\ s[Len(s)] = " " THEN RStrip(SubSeq(s, 1, Len(s) - 1)) ELSE s
\* s.strip() for blanks
Strip(s) == RStrip(LStrip(s))

IsDigits(s) == s # <<>> /\ \A i \in 1..Len(s) : IsDigit(s[i])

RECURSIVE DigitsValue(_)
DigitsValue(s) ==
    IF s = <<>> THEN 0
    ELSE 10 * DigitsValue(SubSeq(s, 1, Len(s) - 1)) + DigitInt(s[Len(s)])

RECURSIVE Pow10(_)
Pow10(n) == IF n = 0 THEN 1 ELSE 10 * Pow10(n - 1)

NaN == [t |-> "float", k |-> "nan", num |-> 0, den |-> 1]
Inf(neg) == [t |-> "float", k |-> "inf", num |-> IF neg THEN -1 ELSE 1, den |-> 1]
Fin(num, den) == [t |-> "float", k |-> "fin", num |-> num, den |-> den]

\* x <= 0 for a float: false for NaN
FloatLeqZero(x) == x.k # "nan" /\ x.num <= 0

\* float(s) for s without exponent or underscore: blanks stripped, an optional
\* sign, then nan, inf, infinity or digits with at most one point
PyFloat(s) ==
    LET t == Strip(s)
        signed == t # <<>> /\ t[1] \in {"+", "-"}
        neg == signed /\ t[1] = "-"
        body == IF signed THEN Tail(t) ELSE t
        dots == {i \in 1..Len(body) : body[i] = "."}
        sgn == IF neg THEN -1 ELSE 1
    IN  IF body = <<"n", "a", "n">> THEN Returned(NaN)
        ELSE IF body \in {<<"i", "n", "f">>, <<"i", "n", "f", "i", "n", "i", "t", "y">>}
        THEN Returned(Inf(neg))
        ELSE IF dots = {} /\ IsDigits(body)
        THEN Returned(Fin(sgn * DigitsValue(body), 1))
        ELSE IF Cardinality(dots) = 1
        THEN LET p == CHOOSE i \in dots : TRUE
                 ip == SubSeq(body, 1, p - 1)
                 fp == SubSeq(body, p + 1, Len(body))
             IN  IF /\ (ip = <<>> \/ IsDigits(ip))
                    /\ (fp = <<>> \/ IsDigits(fp))
                    /\ ~(ip = <<>> /\ fp = <<>>)
                 THEN Returned(Fin(sgn * (DigitsValue(ip) * Pow10(Len(fp))
                                          + DigitsValue(fp)), Pow10(Len(fp))))
                 ELSE Raised("ValueError")
        ELSE Raised("ValueError")

----------------------------------------------------------------------------
(* validate_kyc *)

\* 1. sharpness below the threshold
BlurRule(failures, ci_laplacian_var, thr) ==
    IF ci_laplacian_var < thr THEN Append(failures, "image_blurry") ELSE failures

\* 2. CNP absent or failing the checksum
CnpRule(failures, ok) ==
    IF ~ok THEN Append(failures, "invalid cnp") ELSE failures

\* 3. expiry date absent or in the past
ExpiryRule(failures, exp_date, tdy) ==
    IF ~Truthy(exp_date) \/ exp_date.day < tdy
    THEN Append(failures, "id_expired") ELSE failures

\* 4. invoice date absent or older than the maximum age
InvoiceAgeRule(failures, fdate, tdy, max_age) ==
    IF ~Truthy(fdate) \/ (tdy - fdate.day) > max_age
    THEN Append(failures, "Factura_veche") ELSE failures

\* the try/except around the total: float(str(inv_fields.get("total", 0))
\* .replace(",", ".")); any exception, inv_fields being None included, is caught
TotalRule(failures, invf) ==
    IF invf.t # "dict" THEN Append(failures, "non_positive_total")
    ELSE LET raw == IF "total" \in DOMAIN invf.d THEN invf.d["total"] ELSE IntV(0)
             total == PyFloat(ReplaceChar(PyStr(raw), ",", "."))
         IN  IF total.raised THEN Append(failures, "non_positive_total")
             ELSE IF FloatLeqZero(total.value)
             THEN Append(failures, "non_positive_total")
             ELSE failures

REQUIRED == <<"factura_numar", "factura_data", "total">>

RECURSIVE MissingRule_NoBreak(_, _, _)
MissingRule_NoBreak(failures, invd, i) ==
    IF i > Len(REQUIRED) THEN failures
    ELSE IF REQUIRED[i] \notin DOMAIN invd
    THEN MissingRule_NoBreak(Append(failures, "missing_requiered"), invd, i + 1)
    ELSE MissingRule_NoBreak(failures, invd, i + 1)

RECURSIVE MissingRule(_, _, _)
\* 5. the loop over the three required keys, left at the first one missing
MissingRule(failures, invd, i) ==
    IF i > Len(REQUIRED) THEN failures
    ELSE IF REQUIRED[i] \notin DOMAIN invd
    THEN Append(failures, "missing_requiered")
    ELSE MissingRule(failures, invd, i + 1)

FinalStatus_MoreThanOne(failures) ==
    IF Len(failures) > 1 THEN "KYC_INVALID" ELSE "KYC_VALID"

\* status = "KYC_INVALID" if failures else "KYC_VALID"
FinalStatus(failures) ==
    IF failures # <<>> THEN "KYC_INVALID" ELSE "KYC_VALID"

ResultV(status, failures) == [t |-> "result", status |-> status, failures |-> failures]

validate_kyc(idf, invf, ci_laplacian_var, tdy, thr, max_age) ==
    LET f1 == BlurRule(<<>>, ci_laplacian_var, thr)
    IN  IF idf.t # "dict" THEN Raised("AttributeError")   \* None.get
        ELSE
    LET ok == valid_cnp(Get(idf.d, "cnp"))
    IN  IF ok.raised THEN ok
        ELSE
    LET f2 == CnpRule(f1, ok.value)
        exp_str == Get(idf.d, "expira")
        exp_date == IF Truthy(exp_str) THEN DateParse(exp_str) ELSE None
    IN  IF Truthy(exp_str) /\ exp_date = None
        THEN Raised("AttributeError")                      \* None.date()
        ELSE
    LET f3 == ExpiryRule(f2, exp_date, tdy)
        fdate_str == Get(idf.d, "factura_data")
        fdate == IF Truthy(fdate_str) THEN DateParse(fdate_str) ELSE None
    IN  IF Truthy(fdate_str) /\ fdate = None
        THEN Raised("AttributeError")                      \* None.date()
        ELSE
    LET f4 == InvoiceAgeRule(f3, fdate, tdy, max_age)
        f5 == TotalRule(f4, invf)
    IN  IF invf.t # "dict" THEN Raised("TypeError")        \* req not in None
        ELSE
    LET failures == MissingRule(f5, invf.d, 1)
    IN  Returned(ResultV(FinalStatus(failures), failures))

----------------------------------------------------------------------------
(* Texts: lines of tokens of characters *)

LowerLetters == <<"a", "b", "c", "d", "e", "f", "g", "h", "i", "j", "k", "l", "m", "n", "o", "p", "q", "r", "s", "t", "u", "v", "w", "x", "y", "z">>
UpperLetters == <<"A", "B", "C", "D", "E", "F", "G", "H", "I", "J", "K", "L", "M", "N", "O", "P", "Q", "R", "S", "T", "U", "V", "W", "X", "Y", "Z">>
IsLetter(c) == \E n \in 1..26 : LowerLetters[n] = c \/ UpperLetters[n] = c
UpperChar(c) ==
    IF \E n \in 1..26 : LowerLetters[n] = c
    THEN UpperLetters[CHOOSE n \in 1..26 : LowerLetters[n] = c]
    ELSE c
\* s.upper(); also how a case-insensitive pattern reads a token
Upper(s) == [i \in 1..Len(s) |-> UpperChar(s[i])]

RECURSIVE Flatten(_)
\* the tokens of a text in reading order: \s in a pattern also crosses line ends
Flatten(text) == IF text = <<>> THEN <<>> ELSE Head(text) \o Flatten(Tail(text))

RECURSIVE JoinTokens(_)
\* the tokens written out with one blank between them, a colon set against
\* the word before it
JoinTokens(toks) ==
    IF toks = <<>> THEN <<>>
    ELSE IF Len(toks) = 1 THEN toks[1]
    ELSE IF toks[2] = <<":">> THEN toks[1] \o JoinTokens(Tail(toks))
    ELSE toks[1] \o <<" ">> \o JoinTokens(Tail(toks))

\* [ln.strip() for ln in text.splitlines() if ln.strip()]
NonBlankLines(text) == SelectSeq(text, LAMBDA ln : ln # <<>>)

\* re.search: the leftmost of the places where a pattern matches, 0 when
\* there is none
Leftmost(hits) ==
    IF hits = {} THEN 0 ELSE CHOOSE i \in hits : \A j \in hits : i <= j

COLON == <<":">>
DASH == <<"-">>
IsSeparator(tok) == tok = COLON \/ tok = DASH

\* a date token, [0-3]?\d[-./][0-1]?\d[-./]\d{2,4}: the model's date tokens are
\* written dd.mm.yyyy
IsDateToken(tok) ==
    /\ Len(tok) = 10
    /\ \A i \in {1, 2, 4, 5, 7, 8, 9, 10} : IsDigit(tok[i])
    /\ tok[1] \in {"0", "1", "2", "3"} /\ tok[4] \in {"0", "1"}
    /\ tok[3] = "." /\ tok[6] = "."

Date_01_01_2030 == <<"0", "1", ".", "0", "1", ".", "2", "0", "3", "0">>
Date_15_09_2025 == <<"1", "5", ".", "0", "9", ".", "2", "0", "2", "5">>
Date_01_01_2020 == <<"0", "1", ".", "0", "1", ".", "2", "0", "2", "0">>
Date_31_02_2030 == <<"3", "1", ".", "0", "2", ".", "2", "0", "3", "0">>

\* dateparser.parse(tok, settings={"DATE_ORDER": "DMY"}) on the date tokens the
\* texts hold, in days since 2023-01-01; None for the 31st of February
DateParseDMY(tok) ==
    CASE tok = Date_01_01_2030 -> DateV(2557)
      [] tok = Date_15_09_2025 -> DateV(988)
      [] tok = Date_01_01_2020 -> DateV(-1096)
      [] OTHER -> None

----------------------------------------------------------------------------
(* parse_id_text *)

NUME == <<"N", "U", "M", "E">>
DOMICILIU == <<"D", "O", "M", "I", "C", "I", "L", "I", "U">>
ADRESA == <<"A", "D", "R", "E", "S", "A">>
ADDRESS == <<"A", "D", "D", "R", "E", "S", "S">>
SERIA == <<"S", "E", "R", "I", "A">>
NR == <<"N", "R">>
NR_DOT == <<"N", "R", ".">>
EXPIRARE == <<"E", "X", "P", "I", "R", "A", "R", "E">>
VALABIL == <<"V", "A", "L", "A", "B", "I", "L">>

\* RE_CNP: a token of exactly 13 digits
CnpAt(st, i) == FullMatchD13(st[i])
\* RE_SERIE: SERIA, then a token of one or two letters
SerieAt(st, i) ==
    /\ Upper(st[i]) = SERIA /\ i + 1 <= Len(st)
    /\ Len(st[i + 1]) \in {1, 2} /\ \A k \in 1..Len(st[i + 1]) : IsLetter(st[i + 1][k])
\* RE_NUMAR: NR or NR., then a token of six digits
NumarAt(st, i) ==
    /\ Upper(st[i]) \in {NR, NR_DOT} /\ i + 1 <= Len(st)
    /\ Len(st[i + 1]) = 6 /\ IsDigits(st[i + 1])
\* where the date token of RE_EXP stands after a label at i: behind [:\s]*
ExpDateIndex(st, i) ==
    IF i + 1 <= Len(st) /\ IsDateToken(st[i + 1]) THEN i + 1
    ELSE IF i + 2 <= Len(st) /\ st[i + 1] = COLON /\ IsDateToken(st[i + 2]) THEN i + 2
    ELSE 0
\* RE_EXP: an expiry label (EXPIRARE, VALABIL), then a date token
ExpAt(st, i) == Upper(st[i]) \in {EXPIRARE, VALABIL} /\ ExpDateIndex(st, i) # 0

\* the regex fields: out after line 68
IdRegexFields(text) ==
    LET st == Flatten(text)
        c == Leftmost({i \in 1..Len(st) : CnpAt(st, i)})
        se == Leftmost({i \in 1..Len(st) : SerieAt(st, i)})
        nu == Leftmost({i \in 1..Len(st) : NumarAt(st, i)})
        ex == Leftmost({i \in 1..Len(st) : ExpAt(st, i)})
        d == IF ex = 0 THEN None ELSE DateParseDMY(st[ExpDateIndex(st, ex)])
    IN  (IF c = 0 THEN EmptyDict ELSE "cnp" :> Str(st[c]))
        @@ (IF se = 0 THEN EmptyDict ELSE "serie" :> Str(Upper(st[se + 1])))
        @@ (IF nu = 0 THEN EmptyDict ELSE "num" :> IntV(DigitsValue(st[nu + 1])))
        @@ (IF Truthy(d) THEN "expira" :> IsoStr(d.day) ELSE EmptyDict)

HasToken(ln, toks) == \E k \in 1..Len(ln) : Upper(ln[k]) \in toks
\* ":" in ln
HasColon(ln) == \E k \in 1..Len(ln) : ln[k] = COLON
\* ln.split(":")[-1].strip()
AfterLastColon(ln) ==
    LET last == CHOOSE k \in 1..Len(ln) :
                    ln[k] = COLON /\ \A j \in (k + 1)..Len(ln) : ln[j] # COLON
    IN  JoinTokens(SubSeq(ln, last + 1, Len(ln)))

\* one pass of the for loop at index i (from 0); the pass ends in the return of
\* line 77, which stands inside the loop body
IdLoopBody(lines, i, out) ==
    LET ln == lines[i + 1]
        out1 == IF HasToken(ln, {NUME})
                THEN ("nume" :> Str(IF HasColon(ln) THEN AfterLastColon(ln)
                                    ELSE IF i + 1 < Len(lines)
                                    THEN JoinTokens(lines[i + 2])
                                    ELSE <<>>)) @@ out
                ELSE out
    IN  IF HasToken(ln, {DOMICILIU, ADRESA, ADDRESS})
        THEN IF HasColon(ln)
             THEN Returned(DictV(("domiciliu" :> Str(AfterLastColon(ln))) @@ out1))
             ELSE Raised("AttributeError")       \* a list has no strip
        ELSE Returned(DictV(out1))

\* with no line to loop over the function ends without a return: None
parse_id_text(text) ==
    LET out == IdRegexFields(text)
        lines == NonBlankLines(text)
    IN  IF Len(lines) = 0 THEN Returned(None) ELSE IdLoopBody(lines, 0, out)

----------------------------------------------------------------------------
(* parse_invoice_text_native *)

TOTAL == <<"T", "O", "T", "A", "L">>
DE == <<"D", "E">>
\* plată, its last vowel written a
PLATA == <<"P", "L", "A", "T", "A">>
AMOUNT == <<"A", "M", "O", "U", "N", "T">>
DUE == <<"D", "U", "E">>
FACTURA == <<"F", "A", "C", "T", "U", "R", "A">>
INVOICE == <<"I", "N", "V", "O", "I", "C", "E">>
NR_TAGS == {<<"N", "R", ".">>, <<"N", "R">>, <<"N", "O", ".">>, <<"N", "O">>, <<"#">>}
DATA == <<"D", "A", "T", "A">>
DATE == <<"D", "A", "T", "E">>
EMITERII == <<"E", "M", "I", "T", "E", "R", "I", "I">>
FACTURII == <<"F", "A", "C", "T", "U", "R", "I", "I">>

\* a token that starts with a digit: where [0-9]+ can match
IsNumberToken(tok) == tok # <<>> /\ IsDigit(tok[1])
\* index of the number behind \s*[:\-]?\s* from j on, 0 when there is none
NumberIndex(st, j) ==
    IF j <= Len(st) /\ IsNumberToken(st[j]) THEN j
    ELSE IF j + 1 <= Len(st) /\ IsSeparator(st[j]) /\ IsNumberToken(st[j + 1]) THEN j + 1
    ELSE 0
\* tokens of the total label matched at i: Total de plată, Total or Amount Due
TotalLabelLen(st, i) ==
    IF /\ Upper(st[i]) = TOTAL /\ i + 2 <= Len(st)
       /\ Upper(st[i + 1]) = DE /\ Upper(st[i + 2]) = PLATA
       /\ NumberIndex(st, i + 3) # 0
    THEN 3
    ELSE IF Upper(st[i]) = TOTAL /\ NumberIndex(st, i + 1) # 0 THEN 1
    ELSE IF /\ Upper(st[i]) = AMOUNT /\ i + 1 <= Len(st) /\ Upper(st[i + 1]) = DUE
            /\ NumberIndex(st, i + 2) # 0
    THEN 2
    ELSE 0
TotalAt(st, i) == TotalLabelLen(st, i) # 0

\* [A-Z]{0,4}\d{3,} in one token
IsInvoiceNumber(tok) ==
    \E k \in 0..4 :
        /\ k + 3 <= Len(tok)
        /\ \A j \in 1..k : IsLetter(tok[j])
        /\ \A j \in (k + 1)..Len(tok) : IsDigit(tok[j])
\* index of the invoice number behind the label at i, 0 when there is none
InvoiceNumberIndex(st, i) ==
    LET a == IF i + 1 <= Len(st) /\ Upper(st[i + 1]) \in NR_TAGS THEN i + 2 ELSE i + 1
        b == IF a <= Len(st) /\ IsSeparator(st[a]) THEN a + 1 ELSE a
    IN  IF b <= Len(st) /\ IsInvoiceNumber(st[b]) THEN b
        ELSE IF i + 1 <= Len(st) /\ IsInvoiceNumber(st[i + 1]) THEN i + 1
        ELSE 0
FacturaAt(st, i) == Upper(st[i]) \in {FACTURA, INVOICE} /\ InvoiceNumberIndex(st, i) # 0

\* index of the date token behind the date label at i, 0 when there is none
IssueDateIndex(st, i) ==
    LET a == IF /\ Upper(st[i]) = DATA /\ i + 1 <= Len(st)
                /\ Upper(st[i + 1]) \in {EMITERII, FACTURII}
             THEN i + 2 ELSE i + 1
        b == IF a <= Len(st) /\ IsSeparator(st[a]) THEN a + 1 ELSE a
    IN  IF b <= Len(st) /\ IsDateToken(st[b]) THEN b ELSE 0
IssueDateAt(st, i) == Upper(st[i]) \in {DATA, DATE} /\ IssueDateIndex(st, i) # 0

RECURSIVE ReplaceCommaBlank(_)
\* s.replace(", ", "."): a comma and the blank behind it become a period
ReplaceCommaBlank(s) ==
    IF Len(s) < 2 THEN s
    ELSE IF s[1] = "," /\ s[2] = " " THEN <<".">> \o ReplaceCommaBlank(SubSeq(s, 3, Len(s)))
    ELSE <<s[1]>> \o ReplaceCommaBlank(Tail(s))

parse_invoice_text_native(txt) ==
    LET st == Flatten(NonBlankLines(txt))
        nr == Leftmost({i \in 1..Len(st) : FacturaAt(st, i)})
        dt == Leftmost({i \in 1..Len(st) : IssueDateAt(st, i)})
        d == IF dt = 0 THEN None ELSE DateParseDMY(st[IssueDateIndex(st, dt)])
        tt == Leftmost({i \in 1..Len(st) : TotalAt(st, i)})
        \* m.group(1): the label as matched
        group1 == JoinTokens(SubSeq(st, tt, tt + TotalLabelLen(st, tt) - 1))
    IN  Returned(DictV(
            (IF nr = 0 THEN EmptyDict
             ELSE "factura_numar" :> Str(st[InvoiceNumberIndex(st, nr)]))
            @@ (IF Truthy(d) THEN "factura_data" :> IsoStr(d.day) ELSE EmptyDict)
            @@ (IF tt = 0 THEN EmptyDict
                ELSE "total" :> Str(ReplaceCommaBlank(group1)))))

----------------------------------------------------------------------------
(* Idle values: what a variable holds in a specification that does not use it *)

CnpIdle == cnp = None /\ cnp_ret = NotCalled
TextIdle == id_text = <<>> /\ inv_text = <<>>
FieldsIdle == id_fields = NotCalled /\ inv_fields = NotCalled
ParamsIdle == lv = 0 /\ today = 0 /\ lap_threshold = 0 /\ invoice_max_age_days = 0
VerdictIdle == verdict = NotCalled
RunIdle == env = <<>> /\ log = <<>> /\ exit_code = -1

----------------------------------------------------------------------------
(* Specification SpecCnp: valid_cnp applied to one argument *)

\* number of trailing digits of the 12 weighted ones that range over 0..9
FreeDigits == 2

CnpStem == <<"1", "8", "0", "0", "1", "0", "1", "2", "2", "1", "4", "4">>
CnpPrefix == SubSeq(CnpStem, 1, 12 - FreeDigits)
DigitSet == {DigitChars[n] : n \in 1..10}

\* every 13-digit string that starts with CnpPrefix
CnpDigitStrings == {CnpPrefix \o t : t \in [1..(FreeDigits + 1) -> DigitSet]}
CnpSamples == {CnpPrefix \o t : t \in [1..(FreeDigits + 1) -> {"1", "4", "8"}]}
NonDigits == {"x", " ", "-"}

\* too short, too long, and 13 characters with one non-digit
CnpMalformed ==
    {SubSeq(s, 1, k) : s \in CnpSamples, k \in 0..12}
    \cup {s \o <<c>> : s \in CnpSamples, c \in {"0", "7", "x"}}
    \cup {[s EXCEPT ![i] = c] : s \in CnpSamples, i \in 1..13, c \in NonDigits}

CnpInputs == {None} \cup {Str(s) : s \in CnpDigitStrings \cup CnpMalformed}

InitCnp ==
    /\ pc = "start"
    /\ cnp \in CnpInputs
    /\ cnp_ret = NotCalled
    /\ TextIdle /\ FieldsIdle /\ ParamsIdle /\ VerdictIdle /\ RunIdle

CallValidCnp ==
    /\ pc = "start"
    /\ cnp_ret' = valid_cnp(cnp)
    /\ pc' = "done"
    /\ UNCHANGED <<cnp, id_text, inv_text, id_fields, inv_fields, lv, today,
                   lap_threshold, invoice_max_age_days, verdict, env, log, exit_code>>

NextCnp == CallValidCnp

SpecCnp == InitCnp /\ [][NextCnp]_vars

\* the check digit the algorithm of the specification expects for 13 digits d
ExpectedRemainder(d) ==
    (2 * d[1] + 7 * d[2] + 9 * d[3] + 1 * d[4] + 4 * d[5] + 6 * d[6]
     + 3 * d[7] + 5 * d[8] + 8 * d[9] + 2 * d[10] + 7 * d[11] + 9 * d[12]) % 11

IsThirteenDigits(c) ==
    /\ c.t = "str"
    /\ Len(c.s) = 13
    /\ \A i \in 1..13 : c.s[i] \in DigitSet

DigitsOf(c) == [i \in 1..13 |-> DigitInt(c.s[i])]

CheckDigitMatches(c) ==
    LET d == DigitsOf(c)
        r == ExpectedRemainder(d)
    IN  d[13] = (IF r = 10 THEN 1 ELSE r)

\* C3: valid_cnp(s) returns true iff s is exactly 13 decimal digits whose 13th
\* digit is the expected check digit (1 when the weighted sum mod 11 is 10, the
\* remainder otherwise); for every other argument (absent, empty, too short,
\* too long, holding a non-digit) it returns false and does not raise.
C3_ValidCnpIffCheckDigit ==
    pc = "done" =>
        /\ ~cnp_ret.raised
        /\ cnp_ret.value = (IsThirteenDigits(cnp) /\ CheckDigitMatches(cnp))

\* a 13-digit argument whose remainder is 10 and whose check digit 1 was accepted
C3_Witness ==
    /\ pc = "done"
    /\ IsThirteenDigits(cnp)
    /\ ExpectedRemainder(DigitsOf(cnp)) = 10
    /\ cnp_ret = Returned(TRUE)

----------------------------------------------------------------------------
(* Specification SpecValidate: validate_kyc applied to one set of arguments *)

LAPLACIAN_THRESHOLD == 80
INVOICE_MAX_AGE_DAYS == 90
\* the other maximum age the runs try
ShortMaxAge == 30
\* day number of the reference date
Today == 1000

Chars_F1001 == <<"F", "1", "0", "0", "1">>
GoodCnp == CnpStem \o <<"3">>
BadCnp == CnpStem \o <<"0">>

\* the dicts holding key k with one of vals, or not holding it
Opt(k, vals) == {EmptyDict} \cup {k :> v : v \in vals}

ExpiryVals == {IsoStr(Today - 1), IsoStr(Today), IsoStr(Today + 1), JunkStr, Str(<<>>)}
IssueDateVals ==
    {IsoStr(Today), IsoStr(Today - ShortMaxAge), IsoStr(Today - ShortMaxAge - 1),
     IsoStr(Today - INVOICE_MAX_AGE_DAYS), IsoStr(Today - INVOICE_MAX_AGE_DAYS - 1)}
TotalSamples ==
    {Str(<<"0", ",", "0", "0">>), Str(<<"0", ".", "0", "0">>),
     Str(<<"1", "2", "0", ".", "5", "0">>), Str(<<"1", "2", "0", ",", "5", "0">>),
     Str(<<"-", "5">>), Str(<<"T", "o", "t", "a", "l">>), Str(<<"n", "a", "n">>),
     Str(<<>>)}

IdDicts ==
    {a @@ b @@ c : a \in Opt("cnp", {Str(GoodCnp), Str(BadCnp)}),
                   b \in Opt("expira", ExpiryVals),
                   c \in Opt("factura_data", {IsoStr(Today), IsoStr(Today - INVOICE_MAX_AGE_DAYS - 1)})}
InvDicts ==
    {a @@ b @@ c : a \in Opt("factura_numar", {Str(Chars_F1001)}),
                   b \in Opt("factura_data", IssueDateVals),
                   c \in Opt("total", TotalSamples)}

Sharpness == {10, LAPLACIAN_THRESHOLD - 1, LAPLACIAN_THRESHOLD, 150}

InitValidate ==
    /\ pc = "start"
    /\ id_fields \in {Returned(None)} \cup {Returned(DictV(d)) : d \in IdDicts}
    /\ inv_fields \in {Returned(None)} \cup {Returned(DictV(d)) : d \in InvDicts}
    /\ lv \in Sharpness
    /\ today = Today
    /\ lap_threshold = LAPLACIAN_THRESHOLD
    /\ invoice_max_age_days \in {INVOICE_MAX_AGE_DAYS, ShortMaxAge}
    /\ verdict = NotCalled
    /\ CnpIdle /\ TextIdle /\ RunIdle

CallValidate ==
    /\ pc = "start"
    /\ id_fields # NotCalled /\ inv_fields # NotCalled
    /\ verdict' = validate_kyc(id_fields.value, inv_fields.value, lv, today,
                               lap_threshold, invoice_max_age_days)
    /\ pc' = IF verdict'.raised THEN "raised" ELSE "done"
    /\ UNCHANGED <<cnp, cnp_ret, id_text, inv_text, id_fields, inv_fields, lv, today,
                   lap_threshold, invoice_max_age_days, env, log, exit_code>>

NextValidate == CallValidate

SpecValidate == InitValidate /\ [][NextValidate]_vars

(* Specification SpecTotal: validate_kyc over every short text of a total *)

\* longest text of a total
MaxTotalLen == 4
TotalAlphabet == {"0", "1", ",", ".", "-", "n", "a"}
TotalTexts == UNION {[1..n -> TotalAlphabet] : n \in 0..MaxTotalLen}

TotalDicts ==
    {a @@ b @@ c : a \in Opt("factura_numar", {Str(Chars_F1001)}),
                   b \in {"factura_data" :> IsoStr(Today)},
                   c \in Opt("total", {Str(s) : s \in TotalTexts})}

InitTotal ==
    /\ pc = "start"
    /\ id_fields \in {Returned(DictV(d)) :
                        d \in {("cnp" :> Str(GoodCnp)) @@ ("expira" :> IsoStr(Today)) @@ c :
                                 c \in Opt("factura_data", {IsoStr(Today)})}}
    /\ inv_fields \in {Returned(DictV(d)) : d \in TotalDicts}
    /\ lv \in {10, 150}
    /\ today = Today
    /\ lap_threshold = LAPLACIAN_THRESHOLD
    /\ invoice_max_age_days = INVOICE_MAX_AGE_DAYS
    /\ verdict = NotCalled
    /\ CnpIdle /\ TextIdle /\ RunIdle

SpecTotal == InitTotal /\ [][NextValidate]_vars

----------------------------------------------------------------------------
(* Claims about validate_kyc *)

RuleOrder == <<"image_blurry", "invalid cnp", "id_expired", "Factura_veche",
               "non_positive_total", "missing_requiered">>
RulePos(r) == CHOOSE k \in 1..Len(RuleOrder) : RuleOrder[k] = r
Reasons == {RuleOrder[k] : k \in 1..Len(RuleOrder)}

ValidateReturned == pc = "done" /\ verdict # NotCalled /\ ~verdict.raised
Failures == verdict.value.failures
Reported(k) == \E i \in 1..Len(Failures) : Failures[i] = RuleOrder[k]
Count(f, r) == Cardinality({i \in 1..Len(f) : f[i] = r})

IdArg == id_fields.value.d
InvArg == inv_fields.value.d

\* the list picks its reasons from the rule order, each at most once, in that order
InRuleOrder(f) ==
    /\ \A i \in 1..Len(f) : f[i] \in Reasons
    /\ \A i, j \in 1..Len(f) : i < j => RulePos(f[i]) < RulePos(f[j])

\* inputs on which rule k fails; for rule 4 an issue date missing or too old in
\* whichever mapping carries one, for rule 5 a total that is absent, that float
\* rejects or that is at most 0
RuleFails(k) ==
    CASE k = 1 -> lv < lap_threshold
      [] k = 2 -> ~("cnp" \in DOMAIN IdArg /\ IsThirteenDigits(IdArg["cnp"])
                    /\ CheckDigitMatches(IdArg["cnp"]))
      [] k = 3 -> \/ "expira" \notin DOMAIN IdArg
                  \/ IdArg["expira"].t # "iso"
                  \/ IdArg["expira"].day < today
      [] k = 4 -> \A d \in {IdArg, InvArg} :
                     \/ "factura_data" \notin DOMAIN d
                     \/ today - d["factura_data"].day > invoice_max_age_days
      [] k = 5 -> \/ "total" \notin DOMAIN InvArg
                  \/ LET x == PyFloat(ReplaceChar(InvArg["total"].s, ",", "."))
                     IN  x.raised \/ (x.value.k = "fin" /\ x.value.num <= 0)
      [] k = 6 -> \E req \in {"factura_numar", "factura_data", "total"} :
                     req \notin DOMAIN InvArg

\* C1: whenever validate_kyc returns, its failure list is a subsequence of the
\* fixed rule order (no reason twice, the missing-fields reason once however
\* many fields are absent, never reordered), and every failing rule is reported
\* whatever the earlier rules did; the blur, identity-number, expiry and
\* missing-fields reasons stand in the list only when their rule fails.
C1_FailuresFollowRuleOrder ==
    ValidateReturned =>
        /\ InRuleOrder(Failures)
        /\ \A k \in 1..Len(RuleOrder) : RuleFails(k) => Reported(k)
        /\ \A k \in {1, 2, 3, 6} : Reported(k) => RuleFails(k)

\* rules 1, 3 and 5 fail and the list is exactly those three, in that order
C1_Witness ==
    /\ ValidateReturned
    /\ Failures = <<"image_blurry", "id_expired", "non_positive_total">>

\* C2: whenever validate_kyc returns, the status is KYC_INVALID iff the failure
\* list is non-empty and KYC_VALID iff it is empty.
C2_StatusIffFailures ==
    ValidateReturned =>
        /\ verdict.value.status = "KYC_INVALID" <=> Failures # <<>>
        /\ verdict.value.status = "KYC_VALID" <=> Failures = <<>>

\* a call that returned one failure and the verdict KYC_INVALID
C2_Witness ==
    /\ ValidateReturned
    /\ Len(Failures) = 1
    /\ verdict.value.status = "KYC_INVALID"

\* C4: validate_kyc reports the invoice-too-old reason iff the issue date of
\* the invoice mapping passed to it is absent, or present and more than
\* invoice_max_age_days before the reference date.
C4_InvoiceTooOldIffInvoiceDate ==
    ValidateReturned =>
        (Reported(4) <=>
            \/ "factura_data" \notin DOMAIN InvArg
            \/ today - InvArg["factura_data"].day > invoice_max_age_days)

\* the text, after a decimal comma is turned into a period, is an optionally
\* signed decimal number: digits with at most one period
IsNumberText(s) ==
    LET t == ReplaceChar(s, ",", ".")
        b == IF t # <<>> /\ t[1] \in {"+", "-"} THEN Tail(t) ELSE t
    IN  /\ \E i \in 1..Len(b) : IsDigit(b[i])
        /\ \A i \in 1..Len(b) : IsDigit(b[i]) \/ b[i] = "."
        /\ Cardinality({i \in 1..Len(b) : b[i] = "."}) <= 1

\* the number the text denotes is at most 0
NumberTextLeqZero(s) ==
    \/ s[1] = "-"
    \/ \A i \in 1..Len(s) : IsDigit(s[i]) => s[i] = "0"

\* C5: validate_kyc reports the non-positive-total reason exactly once iff the
\* total is absent, is no number, or is a number at most 0, and not at all
\* otherwise; a malformed total never makes validate_kyc raise.
C5_NonPositiveTotalIff ==
    pc = "done" =>
        /\ ~verdict.raised
        /\ Count(Failures, "non_positive_total") =
              (IF \/ "total" \notin DOMAIN InvArg
                  \/ ~IsNumberText(InvArg["total"].s)
                  \/ NumberTextLeqZero(InvArg["total"].s)
               THEN 1 ELSE 0)

----------------------------------------------------------------------------
(* Specification SpecExtract: both extractors, then validate_kyc on what they
   return *)

\* most lines of an identity text, of an invoice text
MaxIdLines == 2
MaxInvLines == 2

Tok_Nume == <<"N", "u", "m", "e">>
Tok_Ion == <<"I", "o", "n">>
Tok_Ana == <<"A", "n", "a">>
Tok_Pop == <<"P", "o", "p">>
Tok_Domiciliu == <<"D", "o", "m", "i", "c", "i", "l", "i", "u">>
Tok_Adresa == <<"A", "d", "r", "e", "s", "a">>
Tok_Cluj == <<"C", "l", "u", "j">>
Tok_AB == <<"a", "b">>
Tok_123456 == <<"1", "2", "3", "4", "5", "6">>

IdLineChoices ==
    {<<>>,
     <<Tok_Nume, COLON, Tok_Ion>>,
     <<NUME, COLON, Tok_Ana, Tok_Pop>>,
     <<Tok_Nume>>,
     <<Tok_Domiciliu, COLON, Tok_Cluj>>,
     <<Tok_Adresa>>,
     <<Tok_Ion, Tok_Pop>>,
     <<GoodCnp>>,
     <<SERIA, Tok_AB, NR, Tok_123456>>,
     <<VALABIL, Date_01_01_2030>>}

Tok_Total == <<"T", "o", "t", "a", "l">>
Tok_Amount == <<"A", "m", "o", "u", "n", "t">>
Tok_Due == <<"D", "u", "e">>
Tok_Factura == <<"F", "a", "c", "t", "u", "r", "a">>
Tok_Data == <<"D", "a", "t", "a">>
Tok_0c00 == <<"0", ",", "0", "0">>
Tok_120c50 == <<"1", "2", "0", ",", "5", "0">>
Tok_7 == <<"7">>

InvLineChoices ==
    {<<>>,
     <<Tok_Total, COLON, Tok_0c00>>,
     <<Tok_Total, Tok_120c50>>,
     <<Tok_Total, DE, PLATA, COLON, Tok_120c50>>,
     <<Tok_Amount, Tok_Due, DASH, Tok_7>>,
     <<Tok_Total>>,
     <<Tok_120c50>>,
     <<Tok_Factura, NR_DOT, Chars_F1001>>,
     <<Tok_Data, COLON, Date_15_09_2025>>,
     <<DATE, Date_31_02_2030>>}

IdTexts == UNION {[1..n -> IdLineChoices] : n \in 0..MaxIdLines}
InvTexts == UNION {[1..n -> InvLineChoices] : n \in 0..MaxInvLines}

InitExtract ==
    /\ pc = "start"
    /\ id_text \in IdTexts
    /\ inv_text \in InvTexts
    /\ id_fields = NotCalled
    /\ inv_fields = NotCalled
    /\ lv \in {10, 150}
    /\ today = Today
    /\ lap_threshold = LAPLACIAN_THRESHOLD
    /\ invoice_max_age_days = INVOICE_MAX_AGE_DAYS
    /\ verdict = NotCalled
    /\ CnpIdle /\ RunIdle

CallParseId ==
    /\ pc = "start"
    /\ id_fields = NotCalled
    /\ id_fields' = parse_id_text(id_text)
    /\ pc' = IF id_fields'.raised THEN "raised" ELSE pc
    /\ UNCHANGED <<cnp, cnp_ret, id_text, inv_text, inv_fields, lv, today,
                   lap_threshold, invoice_max_age_days, verdict, env, log, exit_code>>

CallParseInvoice ==
    /\ pc = "start"
    /\ inv_fields = NotCalled
    /\ inv_fields' = parse_invoice_text_native(inv_text)
    /\ pc' = IF inv_fields'.raised THEN "raised" ELSE pc
    /\ UNCHANGED <<cnp, cnp_ret, id_text, inv_text, id_fields, lv, today,
                   lap_threshold, invoice_max_age_days, verdict, env, log, exit_code>>

NextExtract == CallParseId \/ CallParseInvoice \/ CallValidate

SpecExtract == InitExtract /\ [][NextExtract]_vars

----------------------------------------------------------------------------
(* Claims about the extractors *)

IdParsed == id_fields # NotCalled
InvParsed == inv_fields # NotCalled

\* C6: for every identity text, invoice text and sharpness, the extractors and
\* validate_kyc on their results end in a (status, failures) result and never
\* in an exception.
C6_ExtractAndValidateNeverRaise ==
    /\ ~id_fields.raised
    /\ ~inv_fields.raised
    /\ ~verdict.raised
    /\ pc # "raised"

\* the number the total pattern is written to capture: the digits of the token
\* behind the label, with a separator and two decimals when they follow
NumericGroup(tok) ==
    LET n == CHOOSE k \in 1..Len(tok) :
                 /\ \A j \in 1..k : IsDigit(tok[j])
                 /\ (k = Len(tok) \/ ~IsDigit(tok[k + 1]))
    IN  IF /\ n + 3 <= Len(tok) /\ tok[n + 1] \in {".", ","}
           /\ IsDigit(tok[n + 2]) /\ IsDigit(tok[n + 3])
        THEN SubSeq(tok, 1, n + 3)
        ELSE SubSeq(tok, 1, n)

InvStream == Flatten(NonBlankLines(inv_text))
TotalLabelIndex == Leftmost({i \in 1..Len(InvStream) : TotalAt(InvStream, i)})
LabelledNumber ==
    InvStream[NumberIndex(InvStream, TotalLabelIndex
                                     + TotalLabelLen(InvStream, TotalLabelIndex))]

\* C7: when the invoice text holds a total label followed by a number,
\* parse_invoice_text_native stores under total that number, its decimal comma
\* turned into a period, and not the label.
C7_TotalIsTheNumber ==
    (InvParsed /\ ~inv_fields.raised /\ TotalLabelIndex # 0) =>
        /\ "total" \in DOMAIN inv_fields.value.d
        /\ inv_fields.value.d["total"]
              = Str(ReplaceChar(NumericGroup(LabelledNumber), ",", "."))

\* C8: parse_id_text of a text with no non-blank line returns a mapping with
\* no keys, never None.
C8_EmptyTextGivesEmptyMapping ==
    (IdParsed /\ NonBlankLines(id_text) = <<>>) =>
        /\ ~id_fields.raised
        /\ id_fields.value.t = "dict"
        /\ DOMAIN id_fields.value.d = {}

IdLines == NonBlankLines(id_text)
FirstNameLine == Leftmost({i \in 1..Len(IdLines) : HasToken(IdLines[i], {NUME})})
FirstAddressLine ==
    Leftmost({i \in 1..Len(IdLines) : HasToken(IdLines[i], {DOMICILIU, ADRESA, ADDRESS})})
\* the value a name line at k carries: behind its colon, else the next line
NameValueAt(k) ==
    IF HasColon(IdLines[k]) THEN AfterLastColon(IdLines[k])
    ELSE IF k + 1 <= Len(IdLines) THEN JoinTokens(IdLines[k + 1])
    ELSE <<>>

\* C9: parse_id_text looks for the labels on every non-blank line, top to
\* bottom: the name (address) holds the value of the first line carrying the
\* label, wherever that line stands, and no later such line changes it.
C9_FirstLabelledLineWins ==
    (IdParsed /\ ~id_fields.raised /\ id_fields.value.t = "dict") =>
        /\ FirstNameLine # 0 =>
              /\ "nume" \in DOMAIN id_fields.value.d
              /\ id_fields.value.d["nume"] = Str(NameValueAt(FirstNameLine))
        /\ (FirstAddressLine # 0 /\ HasColon(IdLines[FirstAddressLine])) =>
              /\ "domiciliu" \in DOMAIN id_fields.value.d
              /\ id_fields.value.d["domiciliu"]
                    = Str(AfterLastColon(IdLines[FirstAddressLine]))

----------------------------------------------------------------------------
(* Specification Spec: one run of main() of KYC.py *)

\* what the OCR engine and the PDF reader may hand back
OcrTexts ==
    {<<>>,
     <<<<Tok_Ion, Tok_Pop>>>>,
     <<<<Tok_Adresa>>, <<Tok_Cluj>>>>,
     <<<<Tok_Nume, COLON, Tok_Ion>>, <<GoodCnp>>, <<VALABIL, Date_01_01_2030>>>>,
     <<<<GoodCnp, SERIA, Tok_AB>>, <<Tok_Domiciliu, COLON, Tok_Cluj>>>>}
PdfTexts ==
    {<<>>,
     <<<<>>, <<>>>>,
     <<<<Tok_Total, COLON, Tok_0c00>>>>,
     <<<<Tok_Factura, NR_DOT, Chars_F1001>>, <<Tok_Data, COLON, Date_15_09_2025>>,
       <<Tok_Total, Tok_120c50>>>>}

\* the command line: overrides left out (None) or given, and whether --log-path
\* names a file inside a directory
Args ==
    [lap_threshold : {None, IntV(100)},
     invoice_max_age_days : {None, IntV(ShortMaxAge)},
     log_in_dir : BOOLEAN]

Init ==
    /\ pc = "start"
    /\ env \in Args
    /\ log = <<>>
    /\ exit_code = -1
    /\ lv = 0 /\ today = Today
    /\ lap_threshold = LAPLACIAN_THRESHOLD
    /\ invoice_max_age_days = INVOICE_MAX_AGE_DAYS
    /\ CnpIdle /\ TextIdle /\ FieldsIdle /\ VerdictIdle

Exit(code) == pc' = "exited" /\ exit_code' = code
\* an exception nothing catches ends the interpreter with status 1
Crash == pc' = "crashed" /\ exit_code' = 1

\* 1) both input files must exist
CheckInputs ==
    /\ pc = "start"
    /\ \E id_exists, pdf_exists \in BOOLEAN :
          IF ~id_exists THEN Exit(2)
          ELSE IF ~pdf_exists THEN Exit(2)
          ELSE pc' = "load" /\ UNCHANGED exit_code
    /\ UNCHANGED <<cnp, cnp_ret, id_text, inv_text, id_fields, inv_fields, lv, today,
                   lap_threshold, invoice_max_age_days, verdict, env, log>>

\* 2) read_image gives None for an unreadable file; else the sharpness is taken
LoadImage ==
    /\ pc = "load"
    /\ \E readable \in BOOLEAN :
          IF ~readable THEN Exit(3) /\ UNCHANGED lv
          ELSE \E v \in {10, 150} : lv' = v /\ pc' = "pdf" /\ UNCHANGED exit_code
    /\ UNCHANGED <<cnp, cnp_ret, id_text, inv_text, id_fields, inv_fields, today,
                   lap_threshold, invoice_max_age_days, verdict, env, log>>

\* 3) extract_pdf_text never raises; a blank text gives an empty mapping
ExtractInvoice ==
    /\ pc = "pdf"
    /\ \E txt \in PdfTexts :
          /\ inv_text' = txt
          /\ inv_fields' = IF NonBlankLines(txt) # <<>>
                           THEN parse_invoice_text_native(txt)
                           ELSE Returned(DictV(EmptyDict))
    /\ pc' = "ocr"
    /\ UNCHANGED <<cnp, cnp_ret, id_text, id_fields, lv, today, lap_threshold,
                   invoice_max_age_days, verdict, env, log, exit_code>>

RunOcr_LogsFailure ==
    /\ pc = "ocr"
    /\ \E ok \in BOOLEAN :
          IF ~ok
          THEN /\ Exit(4) /\ UNCHANGED id_text
               /\ log' = Append(log, [event |-> "KYC_VERDICT", details |-> <<>>])
          ELSE \E txt \in OcrTexts :
                  id_text' = txt /\ pc' = "parse_id" /\ UNCHANGED <<exit_code, log>>
    /\ UNCHANGED <<cnp, cnp_ret, inv_text, id_fields, inv_fields, lv, today,
                   lap_threshold, invoice_max_age_days, verdict, env>>

\* 4) OCR; its failure is caught and ends the run with 4
RunOcr ==
    /\ pc = "ocr"
    /\ \E ok \in BOOLEAN :
          IF ~ok THEN Exit(4) /\ UNCHANGED id_text
          ELSE \E txt \in OcrTexts :
                  id_text' = txt /\ pc' = "parse_id" /\ UNCHANGED exit_code
    /\ UNCHANGED <<cnp, cnp_ret, inv_text, id_fields, inv_fields, lv, today,
                   lap_threshold, invoice_max_age_days, verdict, env, log>>

\* parse_id_text, then list(id_fields.keys()) for the info line: an exception
\* of the parser, or None in place of a dict, ends the run uncaught
ParseId ==
    /\ pc = "parse_id"
    /\ id_fields' = parse_id_text(id_text)
    /\ IF id_fields'.raised \/ id_fields'.value.t # "dict"
       THEN Crash
       ELSE pc' = "validate" /\ UNCHANGED exit_code
    /\ UNCHANGED <<cnp, cnp_ret, id_text, inv_text, inv_fields, lv, today,
                   lap_threshold, invoice_max_age_days, verdict, env, log>>

\* 5) validate_kyc with the overrides the command line gave
Validate ==
    /\ pc = "validate"
    /\ lap_threshold' = IF env.lap_threshold # None
                        THEN env.lap_threshold.n ELSE LAPLACIAN_THRESHOLD
    /\ invoice_max_age_days' = IF env.invoice_max_age_days # None
                               THEN env.invoice_max_age_days.n ELSE INVOICE_MAX_AGE_DAYS
    /\ verdict' = validate_kyc(id_fields.value, inv_fields.value, lv, today,
                               lap_threshold', invoice_max_age_days')
    /\ IF verdict'.raised THEN Crash ELSE pc' = "log" /\ UNCHANGED exit_code
    /\ UNCHANGED <<cnp, cnp_ret, id_text, inv_text, id_fields, inv_fields, lv, today,
                   env, log>>

\* the details main() hands to write_log
LogDetails(result, idf, invf, sharpness) ==
    [status |-> result.status,
     failures |-> result.failures,
     id_fields_present |-> DOMAIN idf,
     invoice_fields_present |-> DOMAIN invf,
     laplacian_variance |-> sharpness]

\* write_log: one line appended; os.makedirs of an empty directory name, or
\* the file system, may raise before anything is written
write_log(event, details, in_dir) ==
    \E io_ok \in BOOLEAN :
        IF in_dir /\ io_ok
        THEN log' = Append(log, [event |-> event, details |-> details])
             /\ pc' = "logged" /\ UNCHANGED exit_code
        ELSE Crash /\ UNCHANGED log

\* 6) ensure_parent_dir, then write_log
WriteLog ==
    /\ pc = "log"
    /\ write_log("KYC_VERDICT",
                 LogDetails(verdict.value, id_fields.value.d, inv_fields.value.d, lv),
                 env.log_in_dir)
    /\ UNCHANGED <<cnp, cnp_ret, id_text, inv_text, id_fields, inv_fields, lv, today,
                   lap_threshold, invoice_max_age_days, verdict, env>>

\* return 0
ReturnZero ==
    /\ pc = "logged"
    /\ Exit(0)
    /\ UNCHANGED <<cnp, cnp_ret, id_text, inv_text, id_fields, inv_fields, lv, today,
                   lap_threshold, invoice_max_age_days, verdict, env, log>>

Next ==
    \/ CheckInputs
    \/ LoadImage
    \/ ExtractInvoice
    \/ RunOcr
    \/ ParseId
    \/ Validate
    \/ WriteLog
    \/ ReturnZero

Spec == Init /\ [][Next]_vars

\* C10: in every run of main() write_log appends at most one entry, and only
\* once validate_kyc has returned a verdict; a run ending with exit code 2, 3
\* or 4 has appended nothing; a run ending with exit code 0 has appended
\* exactly one entry, whose details are the verdict, the failure list and the
\* key sets of the two field mappings.
C10_LogOnceAfterVerdict ==
    /\ Len(log) <= 1
    /\ log # <<>> => (verdict # NotCalled /\ ~verdict.raised)
    /\ exit_code \in {2, 3, 4} => log = <<>>
    /\ exit_code = 0 =>
          /\ Len(log) = 1
          /\ log[1].event = "KYC_VERDICT"
          /\ log[1].details.status = verdict.value.status
          /\ log[1].details.failures = verdict.value.failures
          /\ log[1].details.id_fields_present = DOMAIN id_fields.value.d
          /\ log[1].details.invoice_fields_present = DOMAIN inv_fields.value.d

\* a run that ended with exit code 0 and its one entry
C10_Witness ==
    /\ pc = "exited" /\ exit_code = 0
    /\ Len(log) = 1
    /\ log[1].details.failures # <<>>

=============================================================================
